---- MODULE Spec2Model ----
(***************************************************************************)
(* wg-fleet: the client registry (SQLite table `clients`), the WireGuard   *)
(* peer set of each fleet interface and the request handlers, startup      *)
(* reconciliation and crash/reboot that act on them.                       *)
(*                                                                         *)
(* The handlers are `async def` coroutines without any await, so each      *)
(* request runs to completion on the event loop: one action per handler.   *)
(* A process crash or a host reboot may still cut a handler between its    *)
(* Driver call and its Registry commit.                                    *)
(*                                                                         *)
(* IPv6 addresses are integers of a narrow width; an address text is a     *)
(* record [repr, value]: the registry stores and compares texts.           *)
(* Hostnames and decimal suffixes are sequences of one-character strings.  *)
(* The registry is the sequence of its rows in rowid order (the order of   *)
(* a table scan); the rowid itself is not kept.                            *)
(* Keys: a private key is a positive integer, `wg pubkey` maps it to       *)
(* <<"pub", k>>; `wg genkey` never returns a key that is in use.            *)
(*                                                                         *)
(* The clock counts minutes since the epoch.  A peer's latest_handshake is *)
(* the epoch time WireGuard reports, 0 for a peer that never completed a   *)
(* handshake.  The derived files are the hosts file hosts.py writes and    *)
(* the Prometheus targets file of hooks/prometheus_sd.py.                  *)
(***************************************************************************)
EXTENDS Integers, Sequences, FiniteSets, TLC

\* Number of clients (keys held by a registry row or a peer) at one time.
MaxClients == 2
\* Last instant of the clock.
MaxTime == 1
\* Number of functions in a hook registry.
MaxHooks == 2

\* The most hours and the most minutes in a duration text.
MaxAmount == 30

\* The most characters in a text given to parse_duration that is not a
\* duration text.
MaxText == 4

\* The largest offset of local time from UTC, either way.
MaxOffset == 2

\* The last instant of a handshake or of a pruning cycle in the staleness
\* test taken on its own.
MaxInstant == 8

VARIABLES rows, peers, now, up, last, hosts, targets

vars == <<rows, peers, now, up, last, hosts, targets>>

----------------------------------------------------------------------------
\* Configuration (config.py: Config, FleetConfig).  Two fleets whose subnets
\* overlap: f1 has host part 1..3, f2 has the single host 1.

app_config ==
    [domain |-> "t.local",
     prune_timeout |-> <<"1", "m">>,
     fleets |-> [f1 |-> [ip6 |-> 16, subnet |-> [net |-> 16, hostbits |-> 2],
                         external_ip |-> "192.0.2.1", port |-> 51820],
                 f2 |-> [ip6 |-> 16, subnet |-> [net |-> 16, hostbits |-> 1],
                         external_ip |-> "192.0.2.1", port |-> 51821]]]

Fleets == DOMAIN app_config.fleets

\* config.fleets.items(): the fleets in the order of the configuration file.
FleetOrder == <<"f1", "f2">>

\* Fleet names a request may carry: the configured ones and an unknown one.
FleetNames == Fleets \cup {"ghost"}

\* Python None for the nullable hostname (a hostname is a sequence of
\* one-character strings; this value is not one).
None == <<"None">>

----------------------------------------------------------------------------
\* Address texts.

\* str(ipaddress.IPv6Address): the canonical compressed spelling.
ip_str(a) == [repr |-> "compressed", value |-> a]

\* What a request can present as its source address: canonical spellings,
\* another spelling of an address, and a text that is no address at all.
SourceTexts ==
    {ip_str(a) : a \in 16..20}
        \cup {[repr |-> "expanded", value |-> 17]}
        \cup {[repr |-> "invalid", value |-> 0]}

\* ipaddress.IPv6Address(text) raises ValueError on a text that is no address.
IPv6Address_ok(text) == text.repr \in {"compressed", "expanded"}

\* `addr in IPv6Network(subnet)`.
in_network(a, subnet) ==
    /\ a >= subnet.net
    /\ a < subnet.net + 2 ^ subnet.hostbits

\* allocate_random_ip with the draw taken from 0 .. 2**(128 - prefixlen).
allocate_random_ip_wide(subnet) ==
    {ip_str(subnet.net + r) : r \in 0..(2 ^ subnet.hostbits)}

\* The values random.randint(1, 2**(128 - prefixlen) - 1) can return, each
\* added to the network address and printed.
allocate_random_ip(subnet) ==
    {ip_str(subnet.net + r) : r \in 1..(2 ^ subnet.hostbits - 1)}

----------------------------------------------------------------------------
\* Driver (wireguard.py).

\* `wg pubkey`: the public key of a private key.
wg_pubkey(priv) == <<"pub", priv>>

\* generate_keypair: a private key whose public key no peer and no registry
\* row holds (the least one), and its public key.
generate_keypair(used) ==
    LET priv == CHOOSE k \in 1..(Cardinality(used) + 1) :
                    /\ wg_pubkey(k) \notin used
                    /\ \A j \in 1..(k - 1) : wg_pubkey(j) \in used
    IN <<priv, wg_pubkey(priv)>>

\* `wg set <if> peer <key> allowed-ips <ip>`: creates the peer, or replaces
\* the allowed-ips of the peer that has this key (its handshake is kept).
add_peer(ps, public_key, allowed_ip) ==
    LET old == {p \in ps : p.public_key = public_key}
        hs == IF old = {} THEN 0 ELSE (CHOOSE p \in old : TRUE).latest_handshake
    IN (ps \ old) \cup {[public_key |-> public_key,
                          allowed_ips |-> allowed_ip,
                          latest_handshake |-> hs]}

\* `wg set <if> peer <key> remove`.
remove_peer(ps, public_key) == {p \in ps : p.public_key # public_key}

\* The public keys list_peers reports.
peer_pubkeys(ps) == {p.public_key : p \in ps}

\* `wg show <if> public-key` of the fleet's interface.
get_server_public_key(f) == wg_pubkey(<<"server", f>>)

\* build_client_config with the server's address written as Address.
build_client_config_swapped(client_private_key, client_ip, server_public_key, endpoint_ip, endpoint_port, server_ip) ==
    [PrivateKey |-> client_private_key,
     Address |-> ip_str(server_ip),
     PublicKey |-> server_public_key,
     Endpoint |-> <<endpoint_ip, endpoint_port>>,
     AllowedIPs |-> <<client_ip, 128>>,
     PersistentKeepalive |-> 25]

build_client_config(client_private_key, client_ip, server_public_key, endpoint_ip, endpoint_port, server_ip) ==
    [PrivateKey |-> client_private_key,
     Address |-> client_ip,
     PublicKey |-> server_public_key,
     Endpoint |-> <<endpoint_ip, endpoint_port>>,
     AllowedIPs |-> <<server_ip, 128>>,
     PersistentKeepalive |-> 25]

----------------------------------------------------------------------------
\* Registry (models.py, database.py).

\* The rows of a registry, as a set.
row_set(rs) == {rs[i] : i \in 1..Len(rs)}

\* query(Client).filter_by(fleet_id=f).all()
fleet_rows(rs, f) == {r \in row_set(rs) : r.fleet_id = f}

row_pubkeys(rs, f) == {r.public_key : r \in fleet_rows(rs, f)}

\* Client(...) as register_client builds it.
Client(f, public_key, ip, t) ==
    [fleet_id |-> f,
     public_key |-> public_key,
     assigned_ip |-> ip,
     http_request_ip |-> "client.host",
     hostname |-> None,
     timestamp |-> t]

\* The rowids (positions) of the rows of fleet f whose assigned_ip is ip.
\* The lookup by address without the fleet_id filter.
by_assigned_ip_any_fleet(rs, f, ip) ==
    {i \in 1..Len(rs) : rs[i].assigned_ip = ip}

by_assigned_ip(rs, f, ip) ==
    {i \in 1..Len(rs) : rs[i].fleet_id = f /\ rs[i].assigned_ip = ip}

\* query(...).first(): the match of lowest rowid.
first(matching) == CHOOSE i \in matching : \A j \in matching : i <= j

\* An insert that replaces the rows of the fleet that hold the new row's
\* address.
commit_insert_replace(rs, client) ==
    Append(SelectSeq(rs, LAMBDA r : ~(r.fleet_id = client.fleet_id
                                      /\ r.assigned_ip = client.assigned_ip)),
           client)

\* session.add(client); session.commit(): the new row gets the largest rowid.
commit_insert(rs, client) == Append(rs, client)

\* A commit that also writes the new timestamp to the other rows of the
\* fleet.
commit_update_fleet(rs, i, new) ==
    [j \in 1..Len(rs) |->
       IF j = i THEN new
       ELSE IF rs[j].fleet_id = new.fleet_id
       THEN [rs[j] EXCEPT !.timestamp = new.timestamp]
       ELSE rs[j]]

\* db.commit() of a session that changed the row at position i into `new`.
commit_update(rs, i, new) == [rs EXCEPT ![i] = new]

\* session.delete(c) for every c in `gone`, then session.commit().
RECURSIVE commit_delete(_, _)
commit_delete(rs, gone) ==
    IF rs = << >> THEN << >>
    ELSE IF Head(rs) \in gone THEN commit_delete(Tail(rs), gone)
    ELSE <<Head(rs)>> \o commit_delete(Tail(rs), gone)

\* A session whose pending change reaches the table although the handler
\* raised before db.commit().
close_session_flushed(rs, i, new) == [rs EXCEPT ![i] = new]

\* Leaving `with _session_factory() as session` without commit: the session
\* is closed and its pending change of row i is rolled back.
close_session(rs, i, new) == rs

----------------------------------------------------------------------------
\* Hostnames (routes.py).

Digits == <<"0", "1", "2", "3", "4", "5", "6", "7", "8", "9">>

\* f"{counter}": the decimal digits of a non-negative integer.
RECURSIVE int_str(_)
int_str(n) ==
    IF n < 10 THEN <<Digits[n + 1]>>
    ELSE int_str(n \div 10) \o <<Digits[(n % 10) + 1]>>

\* The character class [a-z0-9_-].
HostnameClass ==
    {"a", "b", "c", "d", "e", "f", "g", "h", "i", "j", "k", "l", "m",
     "n", "o", "p", "q", "r", "s", "t", "u", "v", "w", "x", "y", "z",
     "0", "1", "2", "3", "4", "5", "6", "7", "8", "9", "_", "-"}

\* re.match(r'^[a-z0-9_-]+$', h).  Without re.MULTILINE, `$` matches at the
\* end of the string and also just before a newline that ends the string.
re_match_hostname(h) ==
    LET body == IF Len(h) >= 1 /\ h[Len(h)] = "\n"
                THEN SubSeq(h, 1, Len(h) - 1)
                ELSE h
    IN /\ Len(body) >= 1
       /\ \A i \in 1..Len(body) : body[i] \in HostnameClass

\* The while loop of get_unique_hostname from the state (current, counter).
RECURSIVE unique_scan(_, _, _, _, _)
unique_scan(rs, fleet_id, base_hostname, current, counter) ==
    IF \E r \in row_set(rs) : r.fleet_id = fleet_id /\ r.hostname = current
    THEN unique_scan(rs, fleet_id, base_hostname,
                     base_hostname \o int_str(counter), counter + 1)
    ELSE current

\* get_unique_hostname whose query lacks the fleet_id filter.
RECURSIVE unique_scan_all_fleets(_, _, _, _)
unique_scan_all_fleets(rs, base_hostname, current, counter) ==
    IF \E r \in row_set(rs) : r.hostname = current
    THEN unique_scan_all_fleets(rs, base_hostname,
                                base_hostname \o int_str(counter), counter + 1)
    ELSE current

\* get_unique_hostname that returns the requested name without a scan.
get_unique_hostname_requested(rs, fleet_id, requested) == requested

get_unique_hostname_all_fleets(rs, fleet_id, requested) ==
    unique_scan_all_fleets(rs, requested, requested, 2)

get_unique_hostname(rs, fleet_id, requested) ==
    unique_scan(rs, fleet_id, requested, requested, 2)

\* Hostnames a heartbeat may carry: absent, empty, two valid names, one with
\* an upper-case letter and one that ends in a newline.
HostnameInputs ==
    {None, << >>, <<"a">>, <<"a", "2">>, <<"A">>, <<"a", "\n">>}

----------------------------------------------------------------------------
\* ping_client: the response status and the registry it leaves, for fleet
\* name f, source address text src, requested hostname h, at time t.

\* A heartbeat that leaves the timestamp as it was.
touch_not(client_record, t) == client_record

\* client_record.timestamp = datetime.now(UTC)
touch(client_record, t) == [client_record EXCEPT !.timestamp = t]

\* ping_client with the hostname validated before the client is looked up.
ping_client_hostname_first(rs, f, src, h, t) ==
    IF f \notin Fleets
    THEN [status |-> 404, rows |-> rs, changed |-> FALSE]
    ELSE IF ~IPv6Address_ok(src)
              \/ ~in_network(src.value, app_config.fleets[f].subnet)
    THEN [status |-> 403, rows |-> rs, changed |-> FALSE]
    ELSE IF h # None /\ h # << >> /\ ~re_match_hostname(h)
    THEN [status |-> 400, rows |-> rs, changed |-> FALSE]
    ELSE LET matching == by_assigned_ip(rs, f, src)
         IN IF matching = {}
            THEN [status |-> 404, rows |-> rs, changed |-> FALSE]
            ELSE
            LET at == first(matching)
                client_record == rs[at]
                touched == touch(client_record, t)
                rename == h # None /\ h # << >> /\ client_record.hostname # h
                pending == IF rename
                           THEN [touched EXCEPT
                                   !.hostname = get_unique_hostname(rs, f, h)]
                           ELSE touched
            IN [status |-> 200,
                rows |-> commit_update(rs, at, pending),
                changed |-> rename]

ping_client(rs, f, src, h, t) ==
    IF f \notin Fleets
    THEN [status |-> 404, rows |-> rs, changed |-> FALSE]
    ELSE IF ~IPv6Address_ok(src)
              \/ ~in_network(src.value, app_config.fleets[f].subnet)
    THEN [status |-> 403, rows |-> rs, changed |-> FALSE]
    ELSE LET matching == by_assigned_ip(rs, f, src)
         IN IF matching = {}
            THEN [status |-> 404, rows |-> rs, changed |-> FALSE]
            ELSE
            LET at == first(matching)
                client_record == rs[at]
                touched == touch(client_record, t)
            IN IF h # None /\ h # << >> /\ ~re_match_hostname(h)
               THEN [status |-> 400,
                     rows |-> close_session(rs, at, touched),
                     changed |-> FALSE]
               ELSE
               LET rename == h # None /\ h # << >> /\ client_record.hostname # h
                   pending == IF rename
                              THEN [touched EXCEPT
                                      !.hostname = get_unique_hostname(rs, f, h)]
                              ELSE touched
               IN [status |-> 200,
                   rows |-> commit_update(rs, at, pending),
                   changed |-> rename]

----------------------------------------------------------------------------
\* Derived files (hosts.py, hooks/prometheus_sd.py).

\* A path at which no file exists.
NoFile == <<"ENOENT">>

\* The line that names the first fleet for every client.
hosts_line_one_fleet(client) ==
    <<client.assigned_ip, " ", client.hostname, ".", FleetOrder[1], ".",
      app_config.domain>>

\* f"{client.assigned_ip} {client.hostname}.{client.fleet_id}.{config.domain}"
hosts_line(client) ==
    <<client.assigned_ip, " ", client.hostname, ".", client.fleet_id, ".",
      app_config.domain>>

\* query(Client).filter(Client.hostname.isnot(None)).all(), in rowid order.
RECURSIVE with_hostname(_)
with_hostname(rs) ==
    IF rs = << >> THEN << >>
    ELSE IF Head(rs).hostname # None
    THEN <<Head(rs)>> \o with_hostname(Tail(rs))
    ELSE with_hostname(Tail(rs))

\* regenerate_hosts_file: the lines the renamed temporary file holds.
regenerate_hosts_file(rs) ==
    LET clients == with_hostname(rs)
    IN [i \in 1..Len(clients) |-> hosts_line(clients[i])]

\* A write that opens hosts_path itself: the file holds what was written
\* when the writer stops.
write_in_place(old, lines, written, renamed) ==
    IF renamed THEN lines ELSE SubSeq(lines, 1, written)

\* The writer that opens the file for appending: the lines are put after
\* those the file holds.
open_for_append(old, lines, written, renamed) ==
    IF ~renamed THEN old
    ELSE IF old = NoFile THEN lines ELSE old \o lines

\* temp_path.open('w'), f.write(...), temp_path.rename(hosts_path): the file
\* at hosts_path when the writer has put `written` of the lines into the
\* temporary file and has or has not renamed it; old is the file that was
\* there.
write_and_rename(old, lines, written, renamed) ==
    IF renamed THEN lines ELSE old

\* prometheus_sd_hook: the target list json.dump writes, each object as its
\* keys and values in the order they are written.
prometheus_sd_hook(rs) ==
    LET clients == with_hostname(rs)
    IN [i \in 1..Len(clients) |->
          <<"targets", <<<<"[", clients[i].assigned_ip, "]:9100">>>>,
            "labels", [job |-> "node_exporter",
                       hostname |-> clients[i].hostname,
                       fleet |-> clients[i].fleet_id]>>]

----------------------------------------------------------------------------
\* register_client: what a register for fleet name f leaves, when the
\* allocator draws ip and the step named by fault raises.  keygen tells
\* whether generate_keypair was called.

RegisterFaults ==
    {"none", "generate_keypair", "add_peer", "commit", "get_server_public_key"}

NoConfig == [PrivateKey |-> 0]

\* The public keys in use: those of the peers and of the registry rows.
keys_in_use(rs, ps) ==
    {r.public_key : r \in row_set(rs)} \cup UNION {peer_pubkeys(ps[f]) : f \in Fleets}

\* The fleet check placed after generate_keypair.
reject_unknown_fleet_late(rs, ps) ==
    [status |-> 404, rows |-> rs, peers |-> ps, keygen |-> TRUE,
     config |-> NoConfig]

\* `if fleet_name not in app_config.fleets: raise HTTPException(404)`, the
\* first statement of register_client.
reject_unknown_fleet(rs, ps) ==
    [status |-> 404, rows |-> rs, peers |-> ps, keygen |-> FALSE,
     config |-> NoConfig]

register_client(rs, ps, f, ip, t, fault) ==
    IF f \notin Fleets
    THEN reject_unknown_fleet(rs, ps)
    ELSE IF fault = "generate_keypair"
    THEN [status |-> 500, rows |-> rs, peers |-> ps, keygen |-> FALSE,
          config |-> NoConfig]
    ELSE
    LET fleet_config == app_config.fleets[f]
        pair == generate_keypair(keys_in_use(rs, ps))
        client_private == pair[1]
        client_public == pair[2]
        with_peer == [ps EXCEPT ![f] = add_peer(ps[f], client_public, ip)]
        client_record == Client(f, client_public, ip, t)
    IN IF fault = "add_peer"
       THEN [status |-> 500, rows |-> rs, peers |-> ps, keygen |-> TRUE,
             config |-> NoConfig]
       ELSE IF fault = "commit"
       THEN [status |-> 500, rows |-> rs, peers |-> with_peer,
             keygen |-> TRUE, config |-> NoConfig]
       ELSE IF fault = "get_server_public_key"
       THEN [status |-> 500, rows |-> commit_insert(rs, client_record),
             peers |-> with_peer, keygen |-> TRUE, config |-> NoConfig]
       ELSE [status |-> 200, rows |-> commit_insert(rs, client_record),
             peers |-> with_peer, keygen |-> TRUE,
             config |-> build_client_config(
                            client_private, ip, get_server_public_key(f),
                            fleet_config.external_ip, fleet_config.port,
                            fleet_config.ip6)]

----------------------------------------------------------------------------
\* Startup (main.py).

\* The loop `for pubkey in wg_pubkeys - db_pubkeys: remove_peer(...)`.
RECURSIVE remove_peers(_, _)
remove_peers(ps, keys) ==
    IF keys = {} THEN ps
    ELSE LET k == CHOOSE k \in keys : TRUE
         IN remove_peers(remove_peer(ps, k), keys \ {k})

\* reconcile_fleet_state that removes orphan peers and keeps orphan rows.
reconcile_peers_only(f, ps, rs) ==
    [peers |-> remove_peers(ps, peer_pubkeys(ps) \ row_pubkeys(rs, f)),
     rows |-> rs]

\* reconcile_fleet_state whose query lacks the fleet_id filter.
reconcile_all_fleets(f, ps, rs) ==
    LET wg_pubkeys == peer_pubkeys(ps)
        db_clients == row_set(rs)
        db_pubkeys == {c.public_key : c \in db_clients}
    IN [peers |-> remove_peers(ps, wg_pubkeys \ db_pubkeys),
        rows |-> commit_delete(
                     rs, {c \in db_clients : c.public_key \notin wg_pubkeys})]

\* reconcile_fleet_state for fleet f: the peer set of f's interface and the
\* registry after the commit.
reconcile_fleet_state(f, ps, rs) ==
    LET wg_pubkeys == peer_pubkeys(ps)
        db_clients == fleet_rows(rs, f)
        db_pubkeys == {c.public_key : c \in db_clients}
    IN [peers |-> remove_peers(ps, wg_pubkeys \ db_pubkeys),
        rows |-> commit_delete(
                     rs, {c \in db_clients : c.public_key \notin wg_pubkeys})]

\* The loop of startup() that logs a failed bring_up_interface and goes on
\* with the fleets after it.
RECURSIVE startup_loop_skip(_, _, _, _, _, _)
startup_loop_skip(i, ps, rs, failAt, removed, deleted) ==
    IF i > Len(FleetOrder)
    THEN [ok |-> failAt \notin 1..Len(FleetOrder), peers |-> ps, rows |-> rs,
          reconciled |-> IF failAt \in 1..Len(FleetOrder) THEN failAt - 1
                         ELSE i - 1,
          removed |-> removed, deleted |-> deleted]
    ELSE IF i = failAt
    THEN startup_loop_skip(i + 1, ps, rs, failAt, removed, deleted)
    ELSE LET f == FleetOrder[i]
             rec == reconcile_fleet_state(f, ps[f], rs)
         IN startup_loop_skip(i + 1, [ps EXCEPT ![f] = rec.peers], rec.rows,
                              failAt,
                              removed + Cardinality(ps[f]) - Cardinality(rec.peers),
                              deleted + Len(rs) - Len(rec.rows))

\* The loop of startup() from fleet number i on; bring_up_interface raises
\* for fleet number failAt (0: for none), which ends the process.  removed
\* and deleted count the peers and rows the reconciliation has logged as
\* removed so far.
RECURSIVE startup_loop(_, _, _, _, _, _)
startup_loop(i, ps, rs, failAt, removed, deleted) ==
    IF i > Len(FleetOrder) \/ i = failAt
    THEN [ok |-> i # failAt, peers |-> ps, rows |-> rs, reconciled |-> i - 1,
          removed |-> removed, deleted |-> deleted]
    ELSE LET f == FleetOrder[i]
             rec == reconcile_fleet_state(f, ps[f], rs)
         IN startup_loop(i + 1, [ps EXCEPT ![f] = rec.peers], rec.rows, failAt,
                         removed + Cardinality(ps[f]) - Cardinality(rec.peers),
                         deleted + Len(rs) - Len(rec.rows))

----------------------------------------------------------------------------
\* Pruning (pruning.py, config.py: parse_duration, wireguard.py: list_peers).

IsDigit(c) == \E n \in 1..Len(Digits) : Digits[n] = c

\* int(text) of a run of decimal digits.
RECURSIVE str_int(_)
str_int(text) ==
    IF text = << >> THEN 0
    ELSE LET d == CHOOSE n \in 0..9 : Digits[n + 1] = text[Len(text)]
         IN 10 * str_int(SubSeq(text, 1, Len(text) - 1)) + d

\* int(re.search(r'(\d+)<unit>', duration_str).group(1)), 0 without a match:
\* the leftmost run of digits that the unit letter follows.
re_search_number(duration_str, unit) ==
    LET ends(s) == {e \in (s + 1)..Len(duration_str) :
                      /\ duration_str[e] = unit
                      /\ \A j \in s..(e - 1) : IsDigit(duration_str[j])}
        starts == {s \in 1..Len(duration_str) : ends(s) # {}}
    IN IF starts = {} THEN 0
       ELSE LET s == CHOOSE x \in starts : \A y \in starts : x <= y
                e == CHOOSE x \in ends(s) : TRUE
            IN str_int(SubSeq(duration_str, s, e - 1))

\* parse_duration that adds the number of hours without the factor 60.
parse_duration_unscaled(duration_str) ==
    re_search_number(duration_str, "h") + re_search_number(duration_str, "m")

\* parse_duration: the minutes of the timedelta (0 stands for ValueError,
\* which a valid configuration never gives).
parse_duration(duration_str) ==
    60 * re_search_number(duration_str, "h")
        + re_search_number(duration_str, "m")

\* parse_duration(config.prune_timeout), as each pruning cycle computes it.
prune_timeout == parse_duration(app_config.prune_timeout)

\* datetime.fromtimestamp(ts) on a server whose local time is `offset`
\* minutes ahead of UTC: the naive datetime of the local wall clock.
fromtimestamp_at(ts, offset) == ts + offset

\* The offset of the server's local time from UTC, in minutes.
utc_offset == 0

\* datetime.fromtimestamp(ts): the naive local time of an epoch time, on the
\* server of the service specifications, which runs in UTC.
fromtimestamp(ts) == fromtimestamp_at(ts, utc_offset)

\* The last_handshake of a peer dict is the set of its datetime: empty for
\* Python None.
NoHandshake == {}

\* list_peers: one dict per line of `wg show <if> dump`; the handshake field
\* '0' gives last_handshake None.
list_peers(ps) ==
    {[public_key |-> p.public_key,
      allowed_ips |-> p.allowed_ips,
      last_handshake |-> IF p.latest_handshake = 0 THEN NoHandshake
                         ELSE {fromtimestamp(p.latest_handshake)}] : p \in ps}

\* The staleness test without the comparison to the cutoff.
is_stale_connected(peer, cutoff) == peer.last_handshake # NoHandshake

\* The test `peer['last_handshake'] is None: continue`, then
\* `peer['last_handshake'] < cutoff`.
is_stale(peer, cutoff) ==
    /\ peer.last_handshake # NoHandshake
    /\ \A last_handshake \in peer.last_handshake : last_handshake < cutoff

\* The staleness test of a cycle that runs at the instant t, on a server
\* whose local time is `offset` ahead of UTC, for a peer whose dump line
\* gives the epoch time latest_handshake: list_peers converts the epoch time
\* with fromtimestamp, the cycle takes its cutoff from utcnow().
stale_at(offset, latest_handshake, t) ==
    LET peer == [last_handshake |->
                    IF latest_handshake = 0 THEN NoHandshake
                    ELSE {fromtimestamp_at(latest_handshake, offset)}]
        utcnow == t
        cutoff == utcnow - prune_timeout
    IN is_stale(peer, cutoff)

\* The public keys of the peers of one interface the cycle finds stale.
stale_keys(ps, cutoff) ==
    {p.public_key : p \in {q \in list_peers(ps) : is_stale(q, cutoff)}}

\* The lookup of the pruner that passes over a row whose timestamp a
\* heartbeat has refreshed within prune_timeout.
by_public_key_not_refreshed(rs, f, k) ==
    LET matching == {i \in 1..Len(rs) :
                       /\ rs[i].fleet_id = f
                       /\ rs[i].public_key = k
                       /\ rs[i].timestamp < now - prune_timeout}
    IN IF matching = {} THEN {} ELSE {rs[first(matching)]}

\* The lookup of the pruner made among the rows of the other fleets.
by_public_key_other_fleet(rs, f, k) ==
    LET matching == {i \in 1..Len(rs) :
                       rs[i].fleet_id # f /\ rs[i].public_key = k}
    IN IF matching = {} THEN {} ELSE {rs[first(matching)]}

\* query(Client).filter_by(fleet_id=f, public_key=k).first(): the set that
\* holds the row, or the empty set.
by_public_key(rs, f, k) ==
    LET matching == {i \in 1..Len(rs) :
                       rs[i].fleet_id = f /\ rs[i].public_key = k}
    IN IF matching = {} THEN {} ELSE {rs[first(matching)]}

\* What can go wrong while one fleet is pruned: nothing, list_peers raises,
\* a remove_peer call raises after the stale peers in `done` were handled,
\* or session.commit() raises.
PruneFaults(ps, cutoff) ==
    {[at |-> a, done |-> {}] : a \in {"none", "list_peers", "commit"}}
        \cup {[at |-> "remove_peer", done |-> d] :
                d \in (SUBSET stale_keys(ps, cutoff)) \ {stale_keys(ps, cutoff)}}

\* The body of the loop of prune_stale_clients_once for fleet f: its try
\* block and its except clause.  count is what the body adds to prune_count;
\* the rows marked deleted are dropped with the session when the body
\* raises before or in session.commit().
prune_fleet(f, ps, rs, cutoff, fault) ==
    IF fault.at = "list_peers"
    THEN [peers |-> ps, rows |-> rs, count |-> 0, failed |-> TRUE]
    ELSE
    LET handled == IF fault.at = "remove_peer" THEN fault.done
                   ELSE stale_keys(ps, cutoff)
        marked == UNION {by_public_key(rs, f, k) : k \in handled}
    IN [peers |-> remove_peers(ps, handled),
        rows |-> IF fault.at = "none" THEN commit_delete(rs, marked) ELSE rs,
        count |-> Cardinality(marked),
        failed |-> fault.at # "none"]

\* The loop with the try block around it: the first fleet that fails ends
\* the cycle.
RECURSIVE prune_loop_abort(_, _, _, _, _, _, _)
prune_loop_abort(i, ps, rs, cutoff, faults, prune_count, failed) ==
    IF i > Len(FleetOrder) \/ failed # {}
    THEN [peers |-> ps, rows |-> rs, prune_count |-> prune_count,
          failed |-> failed]
    ELSE LET f == FleetOrder[i]
             res == prune_fleet(f, ps[f], rs, cutoff, faults[f])
         IN prune_loop_abort(i + 1, [ps EXCEPT ![f] = res.peers], res.rows,
                             cutoff, faults, prune_count + res.count,
                             IF res.failed THEN failed \cup {f} ELSE failed)

\* The loop `for fleet_name, fleet_config in config.fleets.items()` from
\* fleet number i on; faults[f] is what goes wrong for fleet f.
RECURSIVE prune_loop(_, _, _, _, _, _, _)
prune_loop(i, ps, rs, cutoff, faults, prune_count, failed) ==
    IF i > Len(FleetOrder)
    THEN [peers |-> ps, rows |-> rs, prune_count |-> prune_count,
          failed |-> failed]
    ELSE LET f == FleetOrder[i]
             res == prune_fleet(f, ps[f], rs, cutoff, faults[f])
         IN prune_loop(i + 1, [ps EXCEPT ![f] = res.peers], res.rows, cutoff,
                       faults, prune_count + res.count,
                       IF res.failed THEN failed \cup {f} ELSE failed)

\* prune_stale_clients_once with the aborting loop.
prune_stale_clients_once_abort(ps, rs, t, faults) ==
    LET cutoff == t - prune_timeout
    IN prune_loop_abort(1, ps, rs, cutoff, faults, 0, {})

\* prune_stale_clients_once up to its test of prune_count, at time t.
prune_stale_clients_once(ps, rs, t, faults) ==
    LET cutoff == t - prune_timeout
    IN prune_loop(1, ps, rs, cutoff, faults, 0, {})

----------------------------------------------------------------------------
\* Hooks (hook_manager.py).  No handler, startup or pruning code calls
\* trigger_hooks, and nothing imports the hooks package.

\* The functions a registry can hold: the two of the hooks package and one
\* more.
Hooks == {"regenerate_hosts_file_hook", "prometheus_sd_hook", "test_hook"}

\* The loop of trigger_hooks without its try block: the first hook that
\* raises ends the loop and the exception leaves trigger_hooks.
RECURSIVE hook_loop_unguarded(_, _, _, _)
hook_loop_unguarded(registry, raising, calls, errors) ==
    IF registry = << >>
    THEN [calls |-> calls, errors |-> errors, returned |-> TRUE]
    ELSE IF Head(registry) \in raising
    THEN [calls |-> Append(calls, Head(registry)),
          errors |-> Append(errors, Head(registry)), returned |-> FALSE]
    ELSE hook_loop_unguarded(Tail(registry), raising,
                             Append(calls, Head(registry)), errors)

\* `for hook_func in _hook_registry`: each hook is called; one in `raising`
\* raises, which is logged and appended to errors.
RECURSIVE hook_loop(_, _, _, _)
hook_loop(registry, raising, calls, errors) ==
    IF registry = << >>
    THEN [calls |-> calls, errors |-> errors, returned |-> TRUE]
    ELSE hook_loop(Tail(registry), raising, Append(calls, Head(registry)),
                   IF Head(registry) \in raising
                   THEN Append(errors, Head(registry)) ELSE errors)

trigger_hooks_unguarded(registry, raising) ==
    hook_loop_unguarded(registry, raising, << >>, << >>)

\* trigger_hooks on the registry, when the hooks in `raising` raise.
trigger_hooks(registry, raising) == hook_loop(registry, raising, << >>, << >>)

----------------------------------------------------------------------------

Init ==
    /\ rows = << >>
    /\ peers = [f \in Fleets |-> {}]
    /\ now = 0
    /\ up = FALSE
    /\ last = [op |-> "init"]
    /\ hosts = NoFile
    /\ targets = NoFile

\* The startup that regenerates the hosts file before the loop over the
\* fleets.
StartupPublishFirst(failAt) ==
    /\ ~up
    /\ LET res == startup_loop(1, peers, rows, failAt, 0, 0)
       IN /\ peers' = res.peers
          /\ rows' = res.rows
          /\ up' = res.ok
          /\ hosts' = IF res.ok THEN regenerate_hosts_file(rows) ELSE hosts
          /\ last' = [op |-> "startup", ok |-> res.ok,
                      reconciled |-> res.reconciled,
                      removed |-> res.removed, deleted |-> res.deleted]
    /\ UNCHANGED <<now, targets>>

\* The process starts: every fleet's interface is brought up and reconciled,
\* then the hosts file is regenerated.  failAt past the last fleet: it is
\* regenerate_hosts_file that raises, and startup() exits as well.
Startup(failAt) ==
    /\ ~up
    /\ LET res == startup_loop(1, peers, rows, failAt, 0, 0)
       IN /\ peers' = res.peers
          /\ rows' = res.rows
          /\ up' = res.ok
          /\ hosts' = IF res.ok THEN regenerate_hosts_file(res.rows) ELSE hosts
          /\ last' = [op |-> "startup", ok |-> res.ok,
                      reconciled |-> res.reconciled,
                      removed |-> res.removed, deleted |-> res.deleted]
    /\ UNCHANGED <<now, targets>>

\* POST /fleet/{f}/register.
Register(f, fault) ==
    /\ up
    /\ f \in Fleets => Cardinality(keys_in_use(rows, peers)) < MaxClients
    /\ \E ip \in (IF f \in Fleets
                  THEN allocate_random_ip(app_config.fleets[f].subnet)
                  ELSE {ip_str(0)}) :
         LET res == register_client(rows, peers, f, ip, now, fault)
         IN /\ rows' = res.rows
            /\ peers' = res.peers
            /\ last' = [op |-> "register", fleet |-> f,
                        status |-> res.status, keygen |-> res.keygen,
                        config |-> res.config]
    /\ UNCHANGED <<now, up, hosts, targets>>

\* The heartbeat that regenerates the hosts file before db.commit().
PingPublishFirst(f, src, h) ==
    /\ up
    /\ LET res == ping_client(rows, f, src, h, now)
       IN /\ rows' = res.rows
          /\ hosts' = IF res.changed THEN regenerate_hosts_file(rows)
                      ELSE hosts
          /\ last' = [op |-> "ping", status |-> res.status,
                      changed |-> res.changed]
    /\ UNCHANGED <<peers, now, up, targets>>

\* POST /fleet/{f}/ping.
Ping(f, src, h) ==
    /\ up
    /\ LET res == ping_client(rows, f, src, h, now)
       IN /\ rows' = res.rows
          /\ hosts' = IF res.changed THEN regenerate_hosts_file(res.rows)
                      ELSE hosts
          /\ last' = [op |-> "ping", status |-> res.status,
                      changed |-> res.changed]
    /\ UNCHANGED <<peers, now, up, targets>>

\* POST /fleet/{f}/ping whose regenerate_hosts_file raises after db.commit():
\* the exception leaves ping_client and the request is answered 500.
PingPublishFails(f, src, h) ==
    /\ up
    /\ LET res == ping_client(rows, f, src, h, now)
       IN /\ res.status = 200
          /\ res.changed
          /\ rows' = res.rows
          /\ last' = [op |-> "ping", status |-> 500, changed |-> TRUE]
    /\ UNCHANGED <<peers, now, up, hosts, targets>>

\* The process dies inside regenerate_hosts_file of a heartbeat, after
\* db.commit(), when `written` lines are in the temporary file and before
\* the rename.
PingCrash(f, src, h, written) ==
    /\ up
    /\ LET res == ping_client(rows, f, src, h, now)
           lines == regenerate_hosts_file(res.rows)
       IN /\ res.status = 200
          /\ res.changed
          /\ written \in 0..Len(lines)
          /\ rows' = res.rows
          /\ hosts' = write_and_rename(hosts, lines, written, FALSE)
    /\ up' = FALSE
    /\ last' = [op |-> "ping_crash", written |-> written]
    /\ UNCHANGED <<peers, now, targets>>

\* The process dies inside register_client, after add_peer and before commit.
RegisterCrash(f) ==
    /\ up
    /\ Cardinality(keys_in_use(rows, peers)) < MaxClients
    /\ \E ip \in allocate_random_ip(app_config.fleets[f].subnet) :
         peers' = register_client(rows, peers, f, ip, now, "commit").peers
    /\ up' = FALSE
    /\ last' = [op |-> "crash"]
    /\ UNCHANGED <<rows, now, hosts, targets>>

\* The process dies while idle.
Crash ==
    /\ up
    /\ up' = FALSE
    /\ last' = [op |-> "crash"]
    /\ UNCHANGED <<rows, peers, now, hosts, targets>>

\* The host reboots: the kernel's peer sets and the files under /run are
\* lost, the registry file stays.
Reboot ==
    /\ up
    /\ up' = FALSE
    /\ peers' = [f \in Fleets |-> {}]
    /\ hosts' = NoFile
    /\ last' = [op |-> "reboot"]
    /\ UNCHANGED <<rows, now, targets>>

\* Time passes.
Tick ==
    /\ now < MaxTime
    /\ now' = now + 1
    /\ last' = [op |-> "tick"]
    /\ UNCHANGED <<rows, peers, up, hosts, targets>>

\* A quiet period longer than prune_timeout passes.
Idle ==
    /\ now <= MaxTime
    /\ now' = MaxTime + prune_timeout + 1
    /\ last' = [op |-> "idle"]
    /\ UNCHANGED <<rows, peers, up, hosts, targets>>

\* The client that holds key k completes a handshake with the interface of
\* fleet f: WireGuard records the time.  Clients are silent after the quiet
\* period.
Handshake(f, k) ==
    /\ 0 < now /\ now <= MaxTime
    /\ \E p \in peers[f] :
          /\ p.public_key = k
          /\ peers' = [peers EXCEPT ![f] =
                         (@ \ {p}) \cup {[p EXCEPT !.latest_handshake = now]}]
    /\ last' = [op |-> "handshake"]
    /\ UNCHANGED <<rows, now, up, hosts, targets>>

\* The pruning task wakes up and runs one cycle.  count: the prune_count the
\* cycle returns or had reached; deleted: the rows the cycle took out of the
\* registry; published: the cycle called regenerate_hosts_file; raised: that
\* call raised, which the loop of prune_stale_clients catches; failed: the
\* fleets whose try block raised.
Prune(faults, hosts_ok) ==
    /\ up
    /\ LET cutoff == now - prune_timeout
           res == prune_stale_clients_once(peers, rows, now, faults)
       IN /\ \A f \in Fleets : faults[f] \in PruneFaults(peers[f], cutoff)
          /\ hosts_ok \/ res.prune_count > 0
          /\ peers' = res.peers
          /\ rows' = res.rows
          /\ hosts' = IF res.prune_count > 0 /\ hosts_ok
                      THEN regenerate_hosts_file(res.rows) ELSE hosts
          /\ last' = [op |-> "prune", count |-> res.prune_count,
                      deleted |-> Len(rows) - Len(res.rows),
                      published |-> res.prune_count > 0,
                      raised |-> ~hosts_ok,
                      failed |-> res.failed]
    /\ UNCHANGED <<now, up, targets>>

\* One run of a publisher on the registry as it is, regenerate_hosts_file
\* for the hosts file or prometheus_sd_hook for the targets file: the query,
\* the temporary file opened with 'w', the rename. `again` records that the
\* run before it was a run of the same publisher.
Republish(publisher) ==
    /\ up
    /\ hosts' = IF publisher = "hosts"
                THEN LET lines == regenerate_hosts_file(rows)
                     IN write_and_rename(hosts, lines, Len(lines), TRUE)
                ELSE hosts
    /\ targets' = IF publisher = "targets"
                  THEN LET objects == prometheus_sd_hook(rows)
                       IN write_and_rename(targets, objects, Len(objects), TRUE)
                  ELSE targets
    /\ last' = [op |-> "publish", publisher |-> publisher,
                again |-> last.op = "publish" /\ last.publisher = publisher]
    /\ UNCHANGED <<rows, peers, now, up>>

\* parse_duration applied to one text, taken on its own from the initial
\* state: it returns a timedelta of so many minutes or raises ValueError.
ParseDuration(duration_str) ==
    /\ ~up
    /\ last.op = "init"
    /\ LET total_minutes == parse_duration(duration_str)
       IN last' = [op |-> "parse_duration", duration_str |-> duration_str,
                   raised |-> total_minutes = 0, minutes |-> total_minutes]
    /\ UNCHANGED <<rows, peers, now, up, hosts, targets>>

\* The staleness test applied on its own, from the initial state, to one
\* peer at one instant on a server with one offset.
StaleTest(offset, latest_handshake, t) ==
    /\ ~up
    /\ last.op = "init"
    /\ last' = [op |-> "stale_test", offset |-> offset,
                latest_handshake |-> latest_handshake, now |-> t,
                stale |-> stale_at(offset, latest_handshake, t)]
    /\ UNCHANGED <<rows, peers, now, up, hosts, targets>>

\* trigger_hooks is called on a registry (by a test or an embedding program).
\* A prometheus_sd_hook that is called and returns has written the targets
\* file.
TriggerHooks(registry, raising) ==
    /\ LET res == trigger_hooks(registry, raising)
           written == \E i \in 1..Len(res.calls) :
                         /\ res.calls[i] = "prometheus_sd_hook"
                         /\ res.calls[i] \notin raising
       IN /\ targets' = IF written THEN prometheus_sd_hook(rows) ELSE targets
          /\ last' = [op |-> "trigger_hooks", registry |-> registry,
                      raising |-> raising, calls |-> res.calls,
                      errors |-> res.errors, returned |-> res.returned]
    /\ UNCHANGED <<rows, peers, now, up, hosts>>

\* The last operation and its outcome is kept in `last`: the response of a
\* request, the result of a startup.

\* The addresses allocate_random_ip can draw, in canonical spelling.
ClientTexts == UNION {allocate_random_ip(app_config.fleets[f].subnet) : f \in Fleets}

\* The fault assignments a pruning cycle can meet in the current state.
PruneInputs ==
    LET cutoff == now - prune_timeout
    IN [Fleets -> UNION {PruneFaults(peers[f], cutoff) : f \in Fleets}]

\* The cycle in which nothing goes wrong.
NoFaults == [f \in Fleets |-> [at |-> "none", done |-> {}]]

\* The public keys a client can hold.
ClientKeys == {wg_pubkey(k) : k \in 1..MaxClients}

\* The whole program: startup, both requests, the pruning task, the clients'
\* handshakes, crashes, reboots and the clock, with heartbeats without a
\* hostname and with one well-formed hostname, a hosts file that can be
\* written while the process is up and a Driver that does not fail while
\* pruning.  The narrower specifications below take the other hostnames and
\* these faults.
Next ==
    \/ \E failAt \in 0..(Len(FleetOrder) + 1) : Startup(failAt)
    \/ \E f \in FleetNames, fault \in RegisterFaults : Register(f, fault)
    \/ \E f \in FleetNames, src \in SourceTexts, h \in {None, <<"a">>} :
          Ping(f, src, h)
    \/ \E f \in Fleets : RegisterCrash(f)
    \/ Crash
    \/ Reboot
    \/ Tick
    \/ Idle
    \/ \E f \in Fleets, k \in ClientKeys : Handshake(f, k)
    \/ Prune(NoFaults, TRUE)

Spec == Init /\ [][Next]_vars

\* The same program under narrower sets of requests and events.

\* Enrolment, faults, crashes, reboots and startup; no heartbeat, the clock
\* stands still.
NextLifecycle ==
    \/ \E failAt \in 0..Len(FleetOrder) : Startup(failAt)
    \/ \E f \in FleetNames, fault \in RegisterFaults : Register(f, fault)
    \/ \E f \in Fleets : RegisterCrash(f)
    \/ Crash
    \/ Reboot

SpecLifecycle == Init /\ [][NextLifecycle]_vars

\* A process that stays up: registers that succeed and heartbeats of the
\* configured fleets from client addresses, without a hostname or with a
\* well-formed one; the clock stands still.
NextHeartbeat ==
    \/ Startup(0)
    \/ \E f \in Fleets : Register(f, "none")
    \/ \E f \in Fleets, src \in ClientTexts,
          h \in {None, <<"a">>, <<"a", "2">>} : Ping(f, src, h)

SpecHeartbeat == Init /\ [][NextHeartbeat]_vars

\* A process that stays up while time passes: registers that succeed and
\* heartbeats without a hostname, with a valid and with an invalid one.
NextClock ==
    \/ Startup(0)
    \/ \E f \in Fleets : Register(f, "none")
    \/ \E f \in FleetNames,
          src \in ClientTexts \cup {t \in SourceTexts : t.repr # "compressed"},
          h \in {None, <<"a">>, <<"A">>} : Ping(f, src, h)
    \/ Tick

SpecClock == Init /\ [][NextClock]_vars

\* A process that stays up while time passes: registers that succeed and
\* heartbeats of the configured fleets from client addresses, without a
\* hostname or with a well-formed one.
NextFrame ==
    \/ Startup(0)
    \/ \E f \in Fleets : Register(f, "none")
    \/ \E f \in Fleets, src \in ClientTexts, h \in {None, <<"a">>} :
          Ping(f, src, h)
    \/ Tick

SpecFrame == Init /\ [][NextFrame]_vars

\* A process that stays up and every heartbeat hostname, from client
\* addresses; the clock stands still.
NextNames ==
    \/ Startup(0)
    \/ \E f \in Fleets : Register(f, "none")
    \/ \E f \in Fleets, src \in ClientTexts, h \in HostnameInputs :
          Ping(f, src, h)

SpecNames == Init /\ [][NextNames]_vars

\* The pruning task with every fault of a cycle: registers that succeed,
\* handshakes, the clock and the quiet period.
NextPrune ==
    \/ Startup(0)
    \/ \E f \in Fleets : Register(f, "none")
    \/ \E f \in Fleets, k \in ClientKeys : Handshake(f, k)
    \/ Tick
    \/ Idle
    \/ \E faults \in PruneInputs, hosts_ok \in BOOLEAN : Prune(faults, hosts_ok)

SpecPrune == Init /\ [][NextPrune]_vars

\* The fault assignments in which only the first fleet of the cycle fails.
FirstFleetFaults ==
    {[f \in Fleets |-> IF f = FleetOrder[1] THEN x ELSE NoFaults[f]] :
       x \in PruneFaults(peers[FleetOrder[1]], now - prune_timeout)}

\* The pruning task when the first fleet of a cycle can fail in every way,
\* the second does not fail and the hosts file can be written.
NextPruneFirst ==
    \/ Startup(0)
    \/ \E f \in Fleets : Register(f, "none")
    \/ \E f \in Fleets, k \in ClientKeys : Handshake(f, k)
    \/ Tick
    \/ Idle
    \/ \E faults \in FirstFleetFaults : Prune(faults, TRUE)

SpecPruneFirst == Init /\ [][NextPruneFirst]_vars

\* The pruning task whose timer keeps firing while time passes and no
\* Driver call fails.
NextPruner ==
    \/ Startup(0)
    \/ \E f \in Fleets : Register(f, "none")
    \/ \E f \in Fleets, k \in ClientKeys : Handshake(f, k)
    \/ Tick
    \/ Idle
    \/ Prune(NoFaults, TRUE)

SpecPruner ==
    /\ Init
    /\ [][NextPruner]_vars
    /\ WF_vars(Startup(0))
    /\ WF_vars(Idle)
    /\ WF_vars(Prune(NoFaults, TRUE))

\* Restarts of a process whose clients have hostnames: startups that
\* complete or fail at any fleet or at the hosts file, registers that
\* succeed, heartbeats with a hostname, crashes and reboots.
NextBoot ==
    \/ \E failAt \in 0..(Len(FleetOrder) + 1) : Startup(failAt)
    \/ \E f \in Fleets : Register(f, "none")
    \/ \E f \in Fleets, src \in ClientTexts : Ping(f, src, <<"a">>)
    \/ Crash
    \/ Reboot

SpecBoot == Init /\ [][NextBoot]_vars

\* The public HTTP surface: registers of any fleet name with every fault
\* and heartbeats of any fleet name from any source text, without a
\* hostname, with a valid and with an invalid one, with and without a
\* failure of the hosts file.
NextSurface ==
    \/ Startup(0)
    \/ \E f \in FleetNames, fault \in RegisterFaults : Register(f, fault)
    \/ \E f \in FleetNames, src \in SourceTexts,
          h \in {None, <<"a">>, <<"A">>} : Ping(f, src, h)
    \/ \E f \in Fleets, src \in ClientTexts :
          PingPublishFails(f, src, <<"a">>)

SpecSurface == Init /\ [][NextSurface]_vars

\* The writers of the derived files: startup, the heartbeat in which a
\* client without hostname sends one, complete or cut inside the write, the
\* service-discovery hook run on its own; the clock stands still.
NextWrite ==
    \/ Startup(0)
    \/ \E f \in Fleets : Register(f, "none")
    \/ \E i \in 1..Len(rows) :
          /\ rows[i].hostname = None
          /\ Ping(rows[i].fleet_id, rows[i].assigned_ip, <<"a">>)
    \/ \E i \in 1..Len(rows), written \in 0..MaxClients :
          /\ rows[i].hostname = None
          /\ PingCrash(rows[i].fleet_id, rows[i].assigned_ip, <<"a">>, written)
    \/ \E raising \in SUBSET {"prometheus_sd_hook"} :
          TriggerHooks(<<"prometheus_sd_hook">>, raising)

SpecWrite == Init /\ [][NextWrite]_vars

\* The publishers run again and again between the changes of the registry:
\* startup, registers, the heartbeat in which a client without hostname
\* sends one, and runs of either publisher.
NextRepublish ==
    \/ Startup(0)
    \/ \E f \in Fleets : Register(f, "none")
    \/ \E i \in 1..Len(rows) :
          /\ rows[i].hostname = None
          /\ Ping(rows[i].fleet_id, rows[i].assigned_ip, <<"a">>)
    \/ \E publisher \in {"hosts", "targets"} : Republish(publisher)

SpecRepublish == Init /\ [][NextRepublish]_vars

\* str(n) for the hours or minutes of a duration text, nothing for 0.
duration_part(n, unit) == IF n = 0 THEN << >> ELSE int_str(n) \o <<unit>>

\* f"{X}h{Y}m", f"{X}h" and f"{Y}m": the duration texts a configuration is
\* written with.
duration_text(X, Y) == duration_part(X, "h") \o duration_part(Y, "m")

\* The characters of the other texts parse_duration is given.
DurationAlphabet == {"0", "1", "h", "m", "x"}

\* The texts parse_duration is applied to: the durations of up to MaxAmount
\* hours and minutes, and every text of at most MaxText characters.
DurationInputs ==
    {duration_text(X, Y) : X \in 0..MaxAmount, Y \in 0..MaxAmount}
       \cup UNION {[1..n -> DurationAlphabet] : n \in 0..MaxText}

\* parse_duration on its own.
NextDuration == \E duration_str \in DurationInputs : ParseDuration(duration_str)

SpecDuration == Init /\ [][NextDuration]_vars

\* The heartbeat with every kind of request: unknown fleets, source texts
\* that are no address, outside the subnet, unregistered or registered, with
\* and without a hostname, good or bad; registers that succeed provide the
\* clients.
NextOrder ==
    \/ Startup(0)
    \/ \E f \in Fleets : Register(f, "none")
    \/ \E f \in FleetNames, src \in SourceTexts,
          h \in {None, <<"a">>, <<"A">>} : Ping(f, src, h)

SpecOrder == Init /\ [][NextOrder]_vars

\* The service in which nothing fails: a startup that completes, registers
\* that succeed, handshakes, the clock, pruning cycles without a fault, and,
\* once the quiet period has passed, the first heartbeat with a hostname of
\* each registered client.
NextSteady ==
    \/ Startup(0)
    \/ \E f \in Fleets : Register(f, "none")
    \/ \E i \in 1..Len(rows) :
          /\ now > MaxTime
          /\ rows[i].hostname = None
          /\ Ping(rows[i].fleet_id, rows[i].assigned_ip, <<"a">>)
    \/ \E f \in Fleets, k \in ClientKeys : Handshake(f, k)
    \/ Tick
    \/ Idle
    \/ Prune(NoFaults, TRUE)

SpecSteady == Init /\ [][NextSteady]_vars

\* Heartbeats and pruning cycles in either order once the quiet period has
\* passed: clients enrol and connect before it; after it, heartbeats come
\* from any address of the subnets, registered or not, and pruning cycles
\* run without a fault.
NextInterleave ==
    \/ Startup(0)
    \/ \E f \in Fleets : now <= MaxTime /\ Register(f, "none")
    \/ \E f \in Fleets, k \in ClientKeys : Handshake(f, k)
    \/ Tick
    \/ Idle
    \/ \E f \in Fleets, src \in ClientTexts :
          /\ now > MaxTime
          /\ Ping(f, src, None)
    \/ Prune(NoFaults, TRUE)

SpecInterleave == Init /\ [][NextInterleave]_vars

\* The offsets of local time from UTC a server can run with.
UtcOffsets == (0 - MaxOffset)..MaxOffset

\* The staleness test on its own: every offset, every handshake instant
\* from 1 on and every later instant of the cycle, up to MaxInstant.
NextZone ==
    \E offset \in UtcOffsets, latest_handshake \in 1..MaxInstant :
       \E t \in latest_handshake..MaxInstant :
          StaleTest(offset, latest_handshake, t)

SpecZone == Init /\ [][NextZone]_vars

\* The hosts file with and without a failure of its write: startup,
\* registers that succeed, heartbeats and restarts; the clock stands still.
NextPublish ==
    \/ \E failAt \in {0, Len(FleetOrder) + 1} : Startup(failAt)
    \/ \E f \in Fleets : Register(f, "none")
    \/ \E f \in Fleets, src \in ClientTexts, h \in {None, <<"a">>} :
          Ping(f, src, h)
    \/ \E f \in Fleets, src \in ClientTexts :
          PingPublishFails(f, src, <<"a">>)
    \/ Crash

SpecPublish == Init /\ [][NextPublish]_vars

\* trigger_hooks alone, on registries of at most MaxHooks functions.
NextHooks ==
    \E n \in 0..MaxHooks :
       \E registry \in [1..n -> Hooks], raising \in SUBSET Hooks :
          TriggerHooks(registry, raising)

SpecHooks == Init /\ [][NextHooks]_vars

----------------------------------------------------------------------------
\* Properties.

\* C1: no two rows of the same fleet share a public_key, share an
\* assigned_ip, or share a non-null hostname (invariant I1).
C1_KeyUniqueness ==
    \A i, j \in 1..Len(rows) :
        (i # j /\ rows[i].fleet_id = rows[j].fleet_id) =>
            /\ rows[i].public_key # rows[j].public_key
            /\ rows[i].assigned_ip # rows[j].assigned_ip
            /\ rows[i].hostname # None => rows[i].hostname # rows[j].hostname

\* C2: after startup has reconciled a fleet, the public keys of the fleet's
\* Driver peers are the public keys of the fleet's Registry rows.
C2_Convergence ==
    last.op = "startup" =>
        \A i \in 1..last.reconciled :
            peer_pubkeys(peers[FleetOrder[i]]) = row_pubkeys(rows, FleetOrder[i])

\* A startup that completed and had rows without a peer to delete.
C2_Witness ==
    /\ last.op = "startup"
    /\ last.ok
    /\ last.deleted > 0

\* C3: reconciling a fleet removes exactly the peers whose key has no row and
\* deletes exactly the rows whose key has no peer; every other peer and row
\* of the fleet is kept as it was.
C3_ReconcileFrame ==
    [][last'.op = "startup" =>
         \A i \in 1..last'.reconciled :
            LET f == FleetOrder[i]
            IN /\ peers'[f] =
                    {p \in peers[f] : p.public_key \in row_pubkeys(rows, f)}
               /\ fleet_rows(rows', f) =
                    {r \in fleet_rows(rows, f) :
                        r.public_key \in peer_pubkeys(peers[f])}]_vars

\* A startup that removed a peer without a row and kept a client that was on
\* both sides.
C3_Witness ==
    /\ last.op = "startup"
    /\ last.removed > 0
    /\ \E f \in Fleets : fleet_rows(rows, f) # {} /\ peers[f] # {}

\* C4: a register answered 200 appends one row with null hostname and adds
\* one peer to that row's fleet, with the row's public_key and with the row's
\* assigned_ip as allowed-ips; the returned config has that assigned_ip as
\* Address and the private key whose public key is the row's.
C4_RegisterEffect ==
    [][(last'.op = "register" /\ last'.status = 200) =>
         /\ last'.fleet \in Fleets
         /\ Len(rows') = Len(rows) + 1
         /\ SubSeq(rows', 1, Len(rows)) = rows
         /\ LET new == rows'[Len(rows')]
                f == new.fleet_id
            IN /\ f = last'.fleet
               /\ new.hostname = None
               /\ \A g \in Fleets \ {f} : peers'[g] = peers[g]
               /\ new.public_key \notin peer_pubkeys(peers[f])
               /\ peers'[f] \ peers[f] =
                    {[public_key |-> new.public_key,
                      allowed_ips |-> new.assigned_ip,
                      latest_handshake |-> 0]}
               /\ peers[f] \subseteq peers'[f]
               /\ last'.config.Address = new.assigned_ip
               /\ wg_pubkey(last'.config.PrivateKey) = new.public_key]_vars

\* A register has just been answered 200 and its row is in the registry.
C4_Witness ==
    /\ last.op = "register"
    /\ last.status = 200
    /\ Len(rows) >= 1
    /\ rows[Len(rows)].assigned_ip = last.config.Address

\* C5: the assigned_ip of every row is an address of the subnet of the row's
\* fleet and is not the subnet's network address.
C5_Containment ==
    \A r \in row_set(rows) :
        LET subnet == app_config.fleets[r.fleet_id].subnet
        IN /\ IPv6Address_ok(r.assigned_ip)
           /\ in_network(r.assigned_ip.value, subnet)
           /\ r.assigned_ip.value - subnet.net >= 1

\* Both fleets hold a row.
C5_Witness ==
    \A f \in Fleets : fleet_rows(rows, f) # {}

\* C6: every non-null hostname in the registry is a non-empty string over
\* [a-z0-9_-].
C6_HostnameShape ==
    \A r \in row_set(rows) :
        r.hostname # None =>
            /\ Len(r.hostname) >= 1
            /\ \A k \in 1..Len(r.hostname) : r.hostname[k] \in HostnameClass

\* Some row of fleet f has hostname h.
hostname_taken(rs, f, h) ==
    \E r \in fleet_rows(rs, f) : r.hostname = h

\* h when no row of f has it, else h followed by the least k >= 2 for which
\* no row of f has h followed by k.
least_free_hostname(rs, f, h) ==
    IF ~hostname_taken(rs, f, h) THEN h
    ELSE LET k == CHOOSE k \in 2..(Len(rs) + 2) :
                     /\ ~hostname_taken(rs, f, h \o int_str(k))
                     /\ \A m \in 2..(k - 1) :
                            hostname_taken(rs, f, h \o int_str(m))
         IN h \o int_str(k)

\* The step is a heartbeat with hostname h from the fleet and address of the
\* row at position i (only such a heartbeat is answered 200).
PingFrom(i, h) == Ping(rows[i].fleet_id, rows[i].assigned_ip, h)

\* The row a heartbeat from the fleet and address of the row at i matches.
matched(i) == first(by_assigned_ip(rows, rows[i].fleet_id, rows[i].assigned_ip))

\* C7: a heartbeat of fleet f that stores a hostname for the request h stores
\* h when no row of f has h, and else h followed by the least decimal k >= 2
\* such that no row of f has h followed by k; rows of other fleets do not
\* count.
C7_UniqueHostname ==
    [][(last'.op = "ping" /\ last'.status = 200 /\ last'.changed) =>
         \A i \in 1..Len(rows), h \in HostnameInputs :
            \/ rows'[matched(i)].hostname =
                   least_free_hostname(rows, rows[i].fleet_id, h)
            \/ ~PingFrom(i, h)]_vars

\* A heartbeat has just stored a suffixed hostname next to the row that holds
\* the plain one.
C7_Witness ==
    /\ last.op = "ping"
    /\ last.changed
    /\ \E i, j \in 1..Len(rows) :
          /\ rows[i].fleet_id = rows[j].fleet_id
          /\ rows[i].hostname = <<"a">>
          /\ rows[j].hostname = <<"a", "2">>

\* C8: a heartbeat answered 404, 403 or 400 leaves the registry as it was,
\* the timestamp of the matched row included.
C8_RejectedPingFrame ==
    [][(last'.op = "ping" /\ last'.status \in {400, 403, 404}) =>
         rows' = rows]_vars

\* A heartbeat has just been answered 400 and every row still has a
\* timestamp older than the clock.
C8_Witness ==
    /\ last.op = "ping"
    /\ last.status = 400
    /\ Len(rows) >= 1
    /\ \A r \in row_set(rows) : r.timestamp < now

\* C9: a register for a fleet name that is not configured is answered 404,
\* calls no generate_keypair and leaves the peers and the registry as they
\* were.
C9_UnknownFleetRegister ==
    [][(last'.op = "register" /\ last'.fleet \notin Fleets) =>
         /\ last'.status = 404
         /\ ~last'.keygen
         /\ rows' = rows
         /\ peers' = peers]_vars

\* A register for an unknown fleet has just been answered while clients
\* exist.
C9_Witness ==
    /\ last.op = "register"
    /\ last.fleet \notin Fleets
    /\ last.status = 404
    /\ Len(rows) >= 1

\* C10: a heartbeat answered 200 leaves the matched row with the current
\* time as timestamp, and no step moves the timestamp of a row backward.
C10_TimestampMonotone ==
    [][/\ (last'.op = "ping" /\ last'.status = 200) =>
            \A i \in 1..Len(rows), h \in HostnameInputs :
               \/ rows'[matched(i)].timestamp = now
               \/ ~PingFrom(i, h)
       /\ \/ rows' = rows
          \/ \A r \in row_set(rows), q \in row_set(rows') :
               (r.fleet_id = q.fleet_id /\ r.public_key = q.public_key) =>
                   q.timestamp >= r.timestamp]_vars

\* A heartbeat has just been answered 200 after the clock moved; one row has
\* the current time and another still has its older timestamp.
C10_Witness ==
    /\ last.op = "ping"
    /\ last.status = 200
    /\ now > 0
    /\ \E r \in row_set(rows) : r.timestamp = now
    /\ \E r \in row_set(rows) : r.timestamp < now

\* C11: a heartbeat leaves the peers and the number of rows as they were; one
\* that commits changes nothing but the timestamp and the hostname of the
\* row matched by fleet and source address: that row keeps its fleet_id,
\* public_key, assigned_ip and http_request_ip and every other row is equal
\* to what it was.
C11_HeartbeatFrame ==
    [][last'.op = "ping" =>
         /\ peers' = peers
         /\ Len(rows') = Len(rows)
         /\ last'.status \in {200, 500} =>
               \A i \in 1..Len(rows), h \in HostnameInputs :
                  \/ \A j \in 1..Len(rows) :
                        IF j = matched(i)
                        THEN /\ rows'[j].fleet_id = rows[j].fleet_id
                             /\ rows'[j].public_key = rows[j].public_key
                             /\ rows'[j].assigned_ip = rows[j].assigned_ip
                             /\ rows'[j].http_request_ip = rows[j].http_request_ip
                        ELSE rows'[j] = rows[j]
                  \/ ~(\/ PingFrom(i, h)
                       \/ PingPublishFails(rows[i].fleet_id,
                                           rows[i].assigned_ip, h))]_vars

\* A heartbeat has just renamed one row at a later time than the enrolment
\* of another row of the same fleet, which still has its timestamp and no
\* hostname.
C11_Witness ==
    /\ last.op = "ping"
    /\ last.status = 200
    /\ last.changed
    /\ \E i, j \in 1..Len(rows) :
          /\ rows[i].fleet_id = rows[j].fleet_id
          /\ rows[i].timestamp = now
          /\ rows[i].hostname # None
          /\ rows[j].timestamp < now
          /\ rows[j].hostname = None

\* The peer dict reports a handshake older than the cutoff of a cycle that
\* starts now.
older_than_cutoff(peer) ==
    \E t \in peer.last_handshake : t < now - prune_timeout

\* The peer dict reports a handshake that is not older than the cutoff.
within_cutoff(peer) ==
    \E t \in peer.last_handshake : t >= now - prune_timeout

\* C12: in a pruning cycle, for every fleet whose pruning does not fail, a
\* peer whose handshake is older than the cutoff is gone from the interface
\* and from the registry, and a peer whose handshake is not older keeps its
\* peer and its row; a cycle without failure counts exactly the rows it
\* deleted.
C12_PruneStale ==
    [][last'.op = "prune" =>
         /\ \A f \in Fleets \ last'.failed : \A p \in list_peers(peers[f]) :
               /\ older_than_cutoff(p) =>
                     /\ p.public_key \notin peer_pubkeys(peers'[f])
                     /\ p.public_key \notin row_pubkeys(rows', f)
               /\ within_cutoff(p) =>
                     /\ p.public_key \in peer_pubkeys(peers'[f])
                     /\ \A r \in fleet_rows(rows, f) :
                           r.public_key = p.public_key => r \in row_set(rows')
         /\ last'.failed = {} =>
               /\ last'.count = Len(rows) - Len(rows')
               /\ last'.count =
                     Cardinality({r \in row_set(rows) :
                        \E p \in list_peers(peers[r.fleet_id]) :
                           p.public_key = r.public_key /\ older_than_cutoff(p)})]_vars

\* A cycle has just pruned a client and kept another one.
C12_Witness ==
    /\ last.op = "prune"
    /\ last.failed = {}
    /\ last.count >= 1
    /\ last.deleted >= 1
    /\ Len(rows) >= 1

\* C13: in a pruning cycle without failure, a row whose peer reports no
\* handshake is deleted and its peer removed when the row's timestamp is
\* older than the cutoff, and both are kept when it is not.
C13_PruneNeverConnected ==
    [][(last'.op = "prune" /\ last'.failed = {}) =>
         \A f \in Fleets : \A p \in list_peers(peers[f]) :
            \A r \in fleet_rows(rows, f) :
               (p.last_handshake = NoHandshake /\ r.public_key = p.public_key) =>
                  IF r.timestamp < now - prune_timeout
                  THEN /\ r \notin row_set(rows')
                       /\ p.public_key \notin peer_pubkeys(peers'[f])
                  ELSE /\ r \in row_set(rows')
                       /\ p.public_key \in peer_pubkeys(peers'[f])]_vars

\* Fleet f has a row with key k that was enrolled before the quiet period.
Enrolled(f, k) ==
    \E r \in fleet_rows(rows, f) : r.public_key = k /\ r.timestamp <= MaxTime

\* Key k is neither in the registry nor on the interface of fleet f.
Reaped(f, k) ==
    /\ k \notin row_pubkeys(rows, f)
    /\ k \notin peer_pubkeys(peers[f])

\* C14: with a pruning timer that keeps firing, a clock that passes the
\* quiet period (after which no client handshakes) and no Driver failure,
\* every client enrolled before the quiet period is eventually gone from
\* the registry and from the interface, whether it ever connected or not.
C14_EventuallyReaped ==
    \A f \in Fleets, k \in ClientKeys : Enrolled(f, k) ~> Reaped(f, k)

\* C15: a pruning cycle calls regenerate_hosts_file if and only if it deleted
\* at least one row.
C15_PublishIffDeleted ==
    last.op = "prune" => (last.published <=> last.deleted > 0)

\* C16: in a pruning cycle in which some fleet fails, every fleet that does
\* not fail ends with the peers and the rows the cycle without any failure
\* gives it.
C16_PruneIsolation ==
    [][(last'.op = "prune" /\ last'.failed # {}) =>
         LET clean == prune_stale_clients_once(peers, rows, now, NoFaults)
         IN \A f \in Fleets \ last'.failed :
               /\ peers'[f] = clean.peers[f]
               /\ fleet_rows(rows', f) = fleet_rows(clean.rows, f)]_vars

\* A cycle has just failed for the first fleet and deleted a row of the
\* second.
C16_Witness ==
    /\ last.op = "prune"
    /\ last.failed = {FleetOrder[1]}
    /\ last.deleted >= 1

\* C17: trigger_hooks calls the functions of the registry once each, in
\* registration order, whichever of them raise, and returns.
C17_HooksIsolated ==
    last.op = "trigger_hooks" =>
        /\ last.calls = last.registry
        /\ last.returned

\* trigger_hooks has just called a second hook after the first one raised.
C17_Witness ==
    /\ last.op = "trigger_hooks"
    /\ Len(last.registry) = 2
    /\ last.registry[1] \in last.raising
    /\ Len(last.calls) = 2
    /\ last.calls[2] = last.registry[2]

\* C18: a heartbeat that changed the registry is answered 200, and a startup
\* that reconciled every fleet completes, whether or not the hosts file can
\* be written.
C18_PublisherIsolated ==
    [][/\ (last'.op = "ping" /\ rows' # rows) => last'.status = 200
       /\ (last'.op = "startup" /\ last'.reconciled = Len(FleetOrder)) =>
             last'.ok]_vars

\* The line of the hosts file for a row: '<assigned_ip> <hostname>.<fleet>.<domain>'.
expected_line(r) ==
    <<r.assigned_ip, " ", r.hostname, ".", r.fleet_id, ".", app_config.domain>>

\* The entry of the targets file for a row.
expected_target(r) ==
    <<"targets", <<<<"[", r.assigned_ip, "]:9100">>>>,
      "labels", [job |-> "node_exporter", hostname |-> r.hostname,
                 fleet |-> r.fleet_id]>>

\* The entries of a derived file; a file that does not exist has none.
entries(file) == IF file = NoFile THEN << >> ELSE file

\* The rows that have a hostname.
named_rows == {r \in row_set(rows) : r.hostname # None}

\* The hosts file has exactly one line for each row with a hostname and no
\* other line.
hosts_in_sync ==
    /\ \A r \in named_rows :
          Cardinality({j \in DOMAIN entries(hosts) :
                         entries(hosts)[j] = expected_line(r)}) = 1
    /\ \A j \in DOMAIN entries(hosts) :
          \E r \in named_rows : entries(hosts)[j] = expected_line(r)

\* The targets file has exactly one entry for each row with a hostname and
\* no other entry.
targets_in_sync ==
    /\ \A r \in named_rows :
          Cardinality({j \in DOMAIN entries(targets) :
                         entries(targets)[j] = expected_target(r)}) = 1
    /\ \A j \in DOMAIN entries(targets) :
          \E r \in named_rows : entries(targets)[j] = expected_target(r)

\* C19: while the process is up (every operation is one step, so none is in
\* flight), the hosts file and the targets file both have exactly one entry
\* for each row with a hostname and no other entry.
C19_ArtifactsInSync ==
    up => (hosts_in_sync /\ targets_in_sync)

\* The last step called regenerate_hosts_file and the call returned.
regenerated ==
    \/ last.op = "startup" /\ last.ok
    \/ last.op = "ping" /\ last.status = 200 /\ last.changed
    \/ last.op = "prune" /\ last.published /\ ~last.raised

\* C20: the hosts file that regenerate_hosts_file has just written holds
\* exactly one line '<assigned_ip> <hostname>.<fleet>.<domain>' for each row
\* with a hostname, of whichever fleet, no line for a row without hostname
\* and no other line.
C20_HostsLines ==
    regenerated =>
        /\ hosts # NoFile
        /\ Len(hosts) = Cardinality(named_rows)
        /\ \A r \in named_rows :
              Cardinality({j \in DOMAIN hosts : hosts[j] = expected_line(r)}) = 1
        /\ \A j \in DOMAIN hosts :
              \E r \in named_rows : hosts[j] = expected_line(r)

\* The hosts file has just been written for a registry with a named row in
\* each fleet and has two lines.
C20_Witness ==
    /\ regenerated
    /\ Len(hosts) = 2
    /\ \A f \in Fleets : \E r \in named_rows : r.fleet_id = f

\* C21: a register answered 200 publishes client_added after its commit:
\* the step leaves the hosts file regenerated from the registry that holds
\* the new row.
C21_RegisterPublishes ==
    [][(last'.op = "register" /\ last'.status = 200) =>
          hosts' = regenerate_hosts_file(rows')]_vars

C24_BringUpFails ==
    /\ [][(last'.op = "startup" /\ last'.reconciled < Len(FleetOrder)) =>
            /\ ~last'.ok
            /\ ~up'
            /\ hosts' = hosts
            /\ \A i \in (last'.reconciled + 1)..Len(FleetOrder) :
                  /\ peers'[FleetOrder[i]] = peers[FleetOrder[i]]
                  /\ fleet_rows(rows', FleetOrder[i]) =
                        fleet_rows(rows, FleetOrder[i])]_vars
    /\ [](~up => ~ENABLED Prune(NoFaults, TRUE))

\* A startup has just failed at the first fleet while the second fleet had
\* rows without peers, which are still there.
C24_Witness ==
    /\ last.op = "startup"
    /\ ~last.ok
    /\ last.reconciled = 0
    /\ ~up
    /\ row_pubkeys(rows, FleetOrder[2]) # {}
    /\ peer_pubkeys(peers[FleetOrder[2]]) = {}

\* C25: a register never commits a row whose assigned_ip is the assigned_ip
\* of a row the fleet already has.
C25_FreshAddress ==
    [][(last'.op = "register" /\ Len(rows') = Len(rows) + 1) =>
         LET new == rows'[Len(rows')]
         IN \A r \in fleet_rows(rows, new.fleet_id) :
               r.assigned_ip # new.assigned_ip]_vars

\* C26: a register that is answered 500 leaves no peer on any interface
\* that was not there before the request.
C26_NoPeerLeftBehind ==
    [][(last'.op = "register" /\ last'.status = 500) =>
         \A f \in Fleets : peer_pubkeys(peers'[f]) \subseteq peer_pubkeys(peers[f])]_vars

\* C27: once registers have completed, whichever way the requests were
\* ordered, the rows of a fleet that have different public keys have
\* different addresses.
C27_DistinctAfterRegisters ==
    last.op = "register" =>
        \A f \in Fleets :
           \A r1, r2 \in fleet_rows(rows, f) :
              r1.public_key # r2.public_key => r1.assigned_ip # r2.assigned_ip

\* C28: whichever way heartbeats of different clients of a fleet that ask
\* for the same hostname are ordered, the rows of the fleet that have a
\* hostname have pairwise different hostnames.
C28_DistinctHostnames ==
    \A f \in Fleets :
       \A i, j \in 1..Len(rows) :
          (/\ i # j
           /\ rows[i].fleet_id = f
           /\ rows[j].fleet_id = f
           /\ rows[i].hostname # None) => rows[i].hostname # rows[j].hostname

\* Two clients of one fleet, with different addresses and keys, have asked
\* for the hostname "a": one row has it and the other has "a2".
C28_Witness ==
    /\ last.op = "ping"
    /\ last.status = 200
    /\ \E i, j \in 1..Len(rows) :
          /\ rows[i].fleet_id = rows[j].fleet_id
          /\ rows[i].assigned_ip # rows[j].assigned_ip
          /\ rows[i].public_key # rows[j].public_key
          /\ rows[i].hostname = <<"a">>
          /\ rows[j].hostname = <<"a", "2">>

\* C29: a register or a heartbeat, whatever its answer, deletes no row and
\* removes no peer of a client that has a row: every row is still at its
\* place with its fleet, key and address, and every row's key that was on
\* its fleet's interface is still there.
C29_SurfaceKeepsClients ==
    [][last'.op \in {"register", "ping"} =>
         /\ Len(rows') >= Len(rows)
         /\ \A i \in 1..Len(rows) :
               /\ rows'[i].fleet_id = rows[i].fleet_id
               /\ rows'[i].public_key = rows[i].public_key
               /\ rows'[i].assigned_ip = rows[i].assigned_ip
         /\ \A f \in Fleets : \A r \in fleet_rows(rows, f) :
               r.public_key \in peer_pubkeys(peers[f]) =>
                   r.public_key \in peer_pubkeys(peers'[f])]_vars

\* A register has just committed a row with the address of an earlier row
\* of the fleet, and both rows have their peers.
C29_Witness ==
    /\ last.op = "register"
    /\ \E i, j \in 1..Len(rows) :
          /\ i < j
          /\ rows[i].fleet_id = rows[j].fleet_id
          /\ rows[i].assigned_ip = rows[j].assigned_ip
          /\ {rows[i].public_key, rows[j].public_key} \subseteq
                peer_pubkeys(peers[rows[i].fleet_id])

\* Two paths hold the same: both no file, or files with the same entries.
same_file(a, b) ==
    IF a = NoFile \/ b = NoFile THEN a = NoFile /\ b = NoFile ELSE a = b

\* C30: whenever the file at the hosts path or at the targets path changes,
\* the new file is the complete file for the registry of that moment (or,
\* for the hosts file, is gone with a reboot): a reader never finds a part
\* of a file, also when the writer is cut inside the write.
C30_CompleteFiles ==
    [][/\ \/ same_file(hosts', hosts)
          \/ same_file(hosts', regenerate_hosts_file(rows'))
          \/ hosts' = NoFile /\ last'.op = "reboot"
       /\ \/ same_file(targets', targets)
          \/ same_file(targets', prometheus_sd_hook(rows'))]_vars

\* A heartbeat has just been cut inside the write after a line was in the
\* temporary file: the hosts file is the earlier one, which has a line and
\* is not the file for the registry.
C30_Witness ==
    /\ last.op = "ping_crash"
    /\ last.written >= 1
    /\ hosts # NoFile
    /\ Len(hosts) >= 1
    /\ hosts # regenerate_hosts_file(rows)

C32_ParseInvertsFormat ==
    last.op = "parse_duration" =>
       \A X \in 0..MaxAmount, Y \in 0..MaxAmount :
          (X + Y >= 1 /\ last.duration_str = duration_text(X, Y))
             => ~last.raised /\ last.minutes = 60 * X + Y

\* '2h30m' has been parsed to 150 minutes.
C32_Witness ==
    /\ last.op = "parse_duration"
    /\ last.duration_str = <<"2", "h", "3", "0", "m">>
    /\ last.duration_str = duration_text(2, 30)
    /\ last.minutes = 150

\* A run of digits, at least one, followed by the unit letter.
amount_of(text, unit) ==
    /\ Len(text) >= 2
    /\ text[Len(text)] = unit
    /\ \A j \in 1..(Len(text) - 1) : IsDigit(text[j])

\* The grammar of a duration: an optional '<digits>h' followed by an
\* optional '<digits>m', at least one of them present, and nothing else.
strict_duration(text) ==
    \/ amount_of(text, "h")
    \/ amount_of(text, "m")
    \/ \E k \in 1..Len(text) :
          /\ amount_of(SubSeq(text, 1, k), "h")
          /\ amount_of(SubSeq(text, k + 1, Len(text)), "m")

\* C33: parse_duration raises an error for every text that is not exactly
\* an optional '<digits>h' followed by an optional '<digits>m' with at
\* least one of them present.
C33_RejectsMalformed ==
    last.op = "parse_duration" =>
       (~strict_duration(last.duration_str) => last.raised)

\* A row of fleet f holds the source address as the request gives it.
registered(f, src) == \E r \in fleet_rows(rows, f) : r.assigned_ip = src

\* The status the first failing check gives, in the order: fleet, source
\* address, registration, hostname. A request without hostname has no
\* hostname to fail.
first_failing_check(f, src, h) ==
    IF f \notin Fleets THEN 404
    ELSE IF src.repr = "invalid"
              \/ src.value < app_config.fleets[f].subnet.net
              \/ src.value >= app_config.fleets[f].subnet.net
                                 + 2 ^ app_config.fleets[f].subnet.hostbits
    THEN 403
    ELSE IF ~registered(f, src) THEN 404
    ELSE IF h # None /\ ~re_match_hostname(h) THEN 400
    ELSE 200

\* C34: the heartbeat applies its checks in a fixed order and the first one
\* that fails decides the answer: 404 for an unknown fleet, else 403 for a
\* source address that is unparseable or outside the subnet, else 404 for an
\* unregistered address, else 400 for a hostname that fails the regex; so a
\* bad hostname from an unregistered address is answered 404.
C34_CheckOrder ==
    [][\A f \in FleetNames, src \in SourceTexts, h \in {None, <<"a">>, <<"A">>} :
          Ping(f, src, h) => last'.status = first_failing_check(f, src, h)]_vars

\* A heartbeat has just been answered 404 in a state in which a heartbeat
\* with the bad hostname 'A' is answered 404 from an unregistered address of
\* the subnet and 400 from a registered one.
C34_Witness ==
    /\ last.op = "ping"
    /\ last.status = 404
    /\ \E f \in Fleets, src \in ClientTexts, other \in ClientTexts :
          /\ in_network(src.value, app_config.fleets[f].subnet)
          /\ ~registered(f, src)
          /\ registered(f, other)
          /\ ping_client(rows, f, src, <<"A">>, now).status = 404
          /\ ping_client(rows, f, other, <<"A">>, now).status = 400

\* The stored name is the requested one or the requested one with a numeric
\* suffix.
derived_from(stored, h) ==
    \/ stored = h
    \/ \E n \in 2..(MaxClients + 2) : stored = h \o int_str(n)

\* C35: the heartbeat is stable under repetition: a client stored under a
\* hostname derived from its request h (h or h with a suffix) that sends the
\* same heartbeat again keeps its stored hostname, and no hostname change
\* is published.
C35_RepeatStable ==
    [][\A i \in 1..Len(rows) :
          (/\ derived_from(rows[matched(i)].hostname, <<"a">>)
           /\ PingFrom(i, <<"a">>))
             => /\ rows'[matched(i)].hostname = rows[matched(i)].hostname
                /\ ~last'.changed]_vars

\* C36: while no Driver or Registry call fails, after any sequence of
\* registers, heartbeats and pruning cycles from a reconciled state, the
\* public keys of the peers of each fleet are those of the fleet's rows, and
\* each peer's allowed-ips is the assigned_ip of its row.
C36_PeersMatchRows ==
    \A f \in Fleets :
       /\ peer_pubkeys(peers[f]) = row_pubkeys(rows, f)
       /\ \A p \in peers[f] : \A r \in fleet_rows(rows, f) :
             r.public_key = p.public_key => p.allowed_ips = r.assigned_ip

\* A pruning cycle has just deleted a client that had connected, and a
\* client with a hostname remains with its peer.
C36_Witness ==
    /\ last.op = "prune"
    /\ last.deleted >= 1
    /\ \E f \in Fleets : \E p \in peers[f] : \E r \in fleet_rows(rows, f) :
          /\ r.public_key = p.public_key
          /\ r.assigned_ip = p.allowed_ips
          /\ r.hostname # None

\* C37: the number a pruning cycle returns is the number of registry rows
\* whose deletion the cycle committed, also when a Driver call fails partway
\* through a fleet and the session of that fleet is given up without commit.
C37_CountIsDeletions ==
    last.op = "prune" => last.count = last.deleted

\* The step leaves the rows of fleet g and the peers of g's interface as
\* they were.
fleet_untouched(g) ==
    /\ fleet_rows(rows', g) = fleet_rows(rows, g)
    /\ peers'[g] = peers[g]

\* The registry with, next to every row, a row of the other fleet that
\* holds the same public_key, assigned_ip and hostname.
mirrored(rs) ==
    rs \o [i \in 1..Len(rs) |->
             [rs[i] EXCEPT !.fleet_id =
                 CHOOSE g \in Fleets : g # rs[i].fleet_id]]

\* C38: fleets are isolated: a register, a heartbeat, the pruning and the
\* startup reconciliation of fleet A neither add, change or delete a row of
\* another fleet B nor add or remove a peer of B's interface, also when A
\* and B hold rows with the same public_key, assigned_ip or hostname.
C38_FleetsIsolated ==
    /\ [][/\ last'.op = "register" =>
                \A g \in Fleets \ {last'.fleet} : fleet_untouched(g)
          /\ \A i \in 1..Len(rows) :
                PingFrom(i, <<"a">>) =>
                   \A g \in Fleets \ {rows[i].fleet_id} : fleet_untouched(g)]_vars
    /\ [](\A f \in Fleets : \A g \in Fleets \ {f} :
            LET both == mirrored(rows)
                cutoff == now - prune_timeout
            IN /\ fleet_rows(prune_fleet(f, peers[f], both, cutoff,
                                         NoFaults[f]).rows, g)
                     = fleet_rows(both, g)
               /\ fleet_rows(reconcile_fleet_state(f, peers[f], both).rows, g)
                     = fleet_rows(both, g)
               /\ \A src \in ClientTexts :
                     fleet_rows(ping_client(both, f, src, <<"a">>, now).rows, g)
                        = fleet_rows(both, g))

\* A heartbeat has just given a client the hostname that a client of the
\* other fleet with the same address holds.
C38_Witness ==
    /\ last.op = "ping"
    /\ last.changed
    /\ \E i, j \in 1..Len(rows) :
          /\ rows[i].fleet_id # rows[j].fleet_id
          /\ rows[i].assigned_ip = rows[j].assigned_ip
          /\ rows[i].hostname = <<"a">>
          /\ rows[j].hostname = <<"a">>

\* C39: a heartbeat and a pruning cycle on the same client, in either order:
\* the heartbeat neither re-creates a row the pruner has deleted (it is
\* answered without a change of the registry when no row holds its
\* address), nor does its update keep the row of a stale peer from being
\* deleted by the cycle that follows; after both the row is absent.
C39_HeartbeatPruneOrder ==
    [][/\ last'.op = "ping" =>
             /\ Len(rows') = Len(rows)
             /\ \A f \in Fleets : row_pubkeys(rows', f) = row_pubkeys(rows, f)
       /\ \A f \in Fleets, src \in ClientTexts :
             (by_assigned_ip(rows, f, src) = {} /\ Ping(f, src, None))
                => last'.status \in {403, 404} /\ rows' = rows
       /\ (last.op = "ping" /\ last.status = 200 /\ last'.op = "prune")
             => \A f \in Fleets : \A p \in list_peers(peers[f]) :
                   older_than_cutoff(p) =>
                      p.public_key \notin row_pubkeys(rows', f)]_vars

\* A heartbeat has just refreshed the row of a client whose peer the next
\* pruning cycle finds stale.
C39_Witness ==
    /\ last.op = "ping"
    /\ last.status = 200
    /\ \E f \in Fleets : \E p \in list_peers(peers[f]) :
          /\ older_than_cutoff(p)
          /\ \E r \in fleet_rows(rows, f) :
                /\ r.public_key = p.public_key
                /\ r.timestamp = now

\* C40: the pruner compares the cutoff and a peer's last handshake in the
\* same time reference: whatever the offset of the server's local time from
\* UTC, a peer is found stale exactly when its last handshake is more than
\* prune_timeout before the instant of the cycle.
C40_SameTimeReference ==
    last.op = "stale_test" =>
       (last.stale <=> last.latest_handshake < last.now - prune_timeout)

====
